---- MODULE Spec2Model ----
(***************************************************************************)
(* OST-Maker: the export task coordinator (main.py, ExportManager), the    *)
(* multiprocessing pool it dispatches to, and the export worker function   *)
(* (workers.py, run_export_process).                                       *)
(*                                                                         *)
(* Specifications: Spec (the coordinator: submit_task in the main thread,  *)
(* the callbacks in the pool's result-handler thread, _on_task_completed   *)
(* one test of the registry per step and the emissions of a callback a     *)
(* step after its change of the registry), WorkerSpec (one export, preview *)
(* render or pre-render over the files it touches),                        *)
(* AppSpec (startup check, pool of worker processes, exit hooks),          *)
(* ReconcileSpec (one _on_task_completed call on any registry),            *)
(* ThreadSpec (main thread and result-handler thread, by statement) and    *)
(* ViewSpec (one project window and the slots that fill its task queue).   *)
(*                                                                         *)
(* A path is a Python str, modelled as a sequence of one-character         *)
(* strings; os.path functions are modelled on that representation as       *)
(* posixpath computes them.                                                *)
(***************************************************************************)
EXTENDS Naturals, Sequences, FiniteSets

VARIABLES
    active_tasks,   \* ExportManager.active_tasks: the registry of reserved keys
    tasks,          \* the apply_async calls made so far, in order; st is "running" from
                    \* the call until the worker function ends (queued or executing)
    outqueue,       \* the pool's result queue: workers' results not yet handled
    scan,           \* the callback the pool's thread is in: its task (0: none),
                    \* where it is ("scan": in the loop of _on_task_completed,
                    \* "emit": before the emissions), the index in
                    \* possible_extensions it tests next, original_music_path
                    \* (<<>>: None) and, for the properties, the registry when
                    \* it was called
    ret,            \* what the submit_task call made in the last step returned
                    \* ("None" when the last step was no submit_task call)
    raised,         \* the exception that escaped the last callback ("None": none)
    \* one call that renders or exports: run_export_process in a worker process,
    \* MidiRenderWorker.run or MidiPreRenderWorker.run, and the files it touches
    wargs,          \* which call it is (an export, MidiRenderWorker.run of a preview
                    \* or MidiPreRenderWorker.run), the music_path and output_path it
                    \* works on, and for a pre-render the files still to come (rest)
                    \* and the number of progress_update emissions (done)
    wpc,            \* where the call is
    fs,             \* the content of each file the call touches (for a pre-render:
                    \* each file the present turn of its loop touches)
    loc,            \* which of its path locals have been assigned (the others are None)
    exc,            \* the exception propagating in the call ("None": none)
    rc,             \* result.returncode of the last subprocess.run
    result,         \* how the call ended
    seen,           \* what a concurrent reader of output_path last observed
    \* the life of the program: main.py's __main__ block, the pool and the atexit hooks
    a_pc,           \* where the main thread is
    env,            \* what check_dependencies looks at: folders, soundfont, tools
    dep_errors,     \* the list check_dependencies returned
    pool_state,     \* Pool._state ("none" before the pool is created)
    taskqueue,      \* number of dispatched tasks no worker process has taken yet
    executing,      \* number of worker processes inside run_export_process
    results,        \* number of results whose callback has not run yet
    handled,        \* number of tasks whose callback or error callback has run
    registry,       \* len(active_tasks)
    sig_submitted,  \* number of task_submitted emissions
    sig_terminal,   \* number of task_finished and task_failed emissions
    a_h,            \* where the pool's result-handler thread is in a callback
    a_ret,          \* outcome of the submit_task call of the last step
    at_close,       \* number of unfinished tasks when shutdown() was called
    hooks,          \* the functions registered with atexit and not yet run, in the
                    \* order of their registration
    shutdown_calls, \* number of calls of ExportManager.shutdown
    temp_dir,       \* whether TEMP_DIR exists
    \* one call of _on_task_completed on some registry
    r_registry,     \* active_tasks when the callback is called
    r_result_path,  \* its argument
    r_outcome,      \* active_tasks and the emissions when it has returned
    \* the Qt main thread and the pool's result-handler thread, statement by statement
    t_registry,     \* active_tasks
    t_jobs,         \* the tasks given to apply_async, in order
    t_windows,      \* project_name of each VideoMakerWindow created, in order
    t_slots,        \* the calls of their slots _on_task_finished and _on_task_failed
                    \* queued to the main thread and not yet run, in order
    t_dialogs,      \* number of QMessageBox.warning boxes that are open
    m_pc,           \* where the main thread is
    m_call,         \* the function whose refresh_task_queue call it is in
    m_key,          \* music_path of the submit_task call it is in
    m_it,           \* the set iterator of refresh_task_queue
    t_exc,          \* the exception raised in the main thread ("None": none)
    h_pc,           \* where the result-handler thread is
    h_job,          \* the task whose callback it runs (0: none)
    h_ext,          \* index in possible_extensions of the extension it tests next
    h_key,          \* original_music_path found by the callback (<<>>: None)
    \* one VideoMakerWindow and the signals it receives
    v_project,      \* its project_name
    v_registry,     \* active_tasks
    v_queue,        \* the texts of the items of its task_queue_widget, in order
    v_slots,        \* the slot calls queued to it by the pool's thread, not yet run
    v_dialogs,      \* number of its QMessageBox.warning boxes that are open
    v_event,        \* the signal the slot it ran last received
    v_reacted,      \* whether that slot passed its project test
    v_shown,        \* whether open_project has shown the window
    v_h,            \* the signal the pool's thread emits next, its callback
                    \* having tested and changed active_tasks (NoEvent: none)
    v_pc,           \* where the main thread is in the window's code
    v_call,         \* the function whose refresh_task_queue call it is in
    v_it,           \* the set iterator of refresh_task_queue
    v_exc           \* the exception its last refresh_task_queue raised

cvars == <<active_tasks, tasks, outqueue, scan, ret, raised>>
wvars == <<wargs, wpc, fs, loc, exc, rc, result, seen>>
evars == <<hooks, shutdown_calls, temp_dir>>
avars == <<a_pc, env, dep_errors, pool_state, taskqueue, executing, results,
           handled, registry, sig_submitted, sig_terminal, a_h, a_ret, at_close,
           hooks, shutdown_calls, temp_dir>>
rvars == <<r_registry, r_result_path, r_outcome>>
tvars == <<t_registry, t_jobs, t_windows, t_slots, t_dialogs, m_pc, m_call, m_key, m_it,
           t_exc, h_pc, h_job, h_ext, h_key>>
vvars == <<v_project, v_registry, v_queue, v_slots, v_dialogs, v_event, v_reacted,
           v_shown, v_h, v_pc, v_call, v_it, v_exc>>
\* the variables of the specifications after WorkerSpec
xvars == <<avars, rvars, tvars, vvars>>
vars == <<active_tasks, tasks, outqueue, scan, ret, raised,
          wargs, wpc, fs, loc, exc, rc, result, seen,
          a_pc, env, dep_errors, pool_state, taskqueue, executing, results,
          handled, registry, sig_submitted, sig_terminal, a_h, a_ret, at_close,
          hooks, shutdown_calls, temp_dir,
          r_registry, r_result_path, r_outcome,
          t_registry, t_jobs, t_windows, t_slots, t_dialogs, m_pc, m_call, m_key, m_it,
          t_exc, h_pc, h_job, h_ext, h_key,
          v_project, v_registry, v_queue, v_slots, v_dialogs, v_event, v_reacted,
          v_shown, v_h, v_pc, v_call, v_it, v_exc>>

(***************************************************************************)
(* Bounds                                                                  *)
(***************************************************************************)
\* number of accepted submissions in one run
MaxTasks == 3

(***************************************************************************)
(* str helpers                                                             *)
(***************************************************************************)
\* str.rfind(c) + 1: the 1-based index of the last c in s, 0 when absent
RFind(s, c) ==
    LET I == {i \in 1..Len(s) : s[i] = c}
    IN IF I = {} THEN 0 ELSE CHOOSE i \in I : \A j \in I : j <= i

endswith(s, suf) ==
    /\ Len(suf) <= Len(s)
    /\ SubSeq(s, Len(s) - Len(suf) + 1, Len(s)) = suf

startswith(s, pre) ==
    /\ Len(pre) <= Len(s)
    /\ SubSeq(s, 1, Len(pre)) = pre

\* str.lower() on the characters the model uses
LowerChar(c) ==
    CASE c = "M" -> "m"
      [] c = "I" -> "i"
      [] c = "D" -> "d"
      [] c = "P" -> "p"
      [] c = "Q" -> "q"
      [] c = "W" -> "w"
      [] c = "A" -> "a"
      [] c = "V" -> "v"
      [] OTHER -> c

lower(s) == [i \in 1..Len(s) |-> LowerChar(s[i])]

\* str.rstrip("/")
RECURSIVE rstrip_sep(_)
rstrip_sep(s) ==
    IF s # <<>> /\ s[Len(s)] = "/" THEN rstrip_sep(SubSeq(s, 1, Len(s) - 1)) ELSE s

\* str.find(c) + 1: the 1-based index of the first c in s, 0 when absent
Find(s, c) ==
    LET I == {i \in 1..Len(s) : s[i] = c}
    IN IF I = {} THEN 0 ELSE CHOOSE i \in I : \A j \in I : i <= j

\* sub in s, for two str
contains(sub, s) ==
    \E i \in 1..(Len(s) - Len(sub) + 1) : SubSeq(s, i, i + Len(sub) - 1) = sub

\* s.split(sep) for a separator of one character
RECURSIVE split(_, _)
split(s, sep) ==
    LET i == Find(s, sep)
    IN IF i = 0 THEN <<s>>
       ELSE <<SubSeq(s, 1, i - 1)>> \o split(SubSeq(s, i + 1, Len(s)), sep)

(***************************************************************************)
(* os.path                                                                 *)
(***************************************************************************)
basename(p) == SubSeq(p, RFind(p, "/") + 1, Len(p))

dirname(p) ==
    LET head == SubSeq(p, 1, RFind(p, "/"))
    IN IF head # <<>> /\ (\E i \in 1..Len(head) : head[i] # "/")
       THEN rstrip_sep(head)
       ELSE head

\* os.path.join(a, b)
join(a, b) ==
    IF startswith(b, <<"/">>) THEN b
    ELSE IF a = <<>> \/ a[Len(a)] = "/" THEN a \o b
    ELSE a \o <<"/">> \o b

\* os.path.splitext(p): <<root, ext>>; leading dots of the last component
\* are not an extension
splitext(p) ==
    LET sepIndex == RFind(p, "/")
        dotIndex == RFind(p, ".")
    IN IF /\ dotIndex > sepIndex
          /\ \E j \in (sepIndex + 1)..(dotIndex - 1) : p[j] # "."
       THEN <<SubSeq(p, 1, dotIndex - 1), SubSeq(p, dotIndex, Len(p))>>
       ELSE <<p, <<>>>>

\* the loop of os.path.normpath over the components of the path
RECURSIVE norm_comps(_, _, _, _)
norm_comps(comps, i, new_comps, initial_slashes) ==
    IF i > Len(comps) THEN new_comps
    ELSE LET comp == comps[i]
         IN IF comp = <<>> \/ comp = <<".">>
            THEN norm_comps(comps, i + 1, new_comps, initial_slashes)
            ELSE IF \/ comp # <<".", ".">>
                    \/ (initial_slashes = 0 /\ new_comps = <<>>)
                    \/ (new_comps # <<>> /\ new_comps[Len(new_comps)] = <<".", ".">>)
            THEN norm_comps(comps, i + 1, Append(new_comps, comp), initial_slashes)
            ELSE IF new_comps # <<>>
            THEN norm_comps(comps, i + 1, SubSeq(new_comps, 1, Len(new_comps) - 1),
                            initial_slashes)
            ELSE norm_comps(comps, i + 1, new_comps, initial_slashes)

\* '/'.join(comps), from component i on
RECURSIVE join_sep(_, _)
join_sep(comps, i) ==
    IF i > Len(comps) THEN <<>>
    ELSE IF i = Len(comps) THEN comps[i]
    ELSE comps[i] \o <<"/">> \o join_sep(comps, i + 1)

\* os.path.normpath(path)
normpath(path) ==
    IF path = <<>> THEN <<".">>
    ELSE LET initial_slashes ==
                 IF ~startswith(path, <<"/">>) THEN 0
                 ELSE IF startswith(path, <<"/", "/">>)
                         /\ ~startswith(path, <<"/", "/", "/">>) THEN 2
                 ELSE 1
             body == join_sep(norm_comps(split(path, "/"), 1, <<>>, initial_slashes), 1)
             out == (IF initial_slashes = 2 THEN <<"/", "/">>
                     ELSE IF initial_slashes = 1 THEN <<"/">> ELSE <<>>) \o body
         IN IF out = <<>> THEN <<".">> ELSE out

(***************************************************************************)
(* config.py                                                               *)
(***************************************************************************)
WORK_DIR == <<"/", "w">>
MUSIC_DIR == join(WORK_DIR, <<"M", "u", "s", "i", "c">>)
MOVIE_DIR == join(WORK_DIR, <<"M", "o", "v", "i", "e">>)

(***************************************************************************)
(* The environment: project folders under MUSIC_DIR and the files in them  *)
(***************************************************************************)
Projects == {<<"P">>, <<"Q">>}

mid == <<".", "m", "i", "d">>
mp3 == <<".", "m", "p", "3">>
wav == <<".", "w", "a", "v">>
mp4 == <<".", "m", "p", "4">>

\* os.listdir(project_music_path) of each project
listdir(project) ==
    IF project = <<"P">>
    THEN { <<"a">> \o mid, <<"a">> \o mp3, <<"a">> \o wav, <<"a", ".", "M", "I", "D">>,
           <<"a", ".", "t", "x", "t">> }
    ELSE { <<"a">> \o mid }

Images == { <<"/", "c", ".", "p", "n", "g">> }

(***************************************************************************)
(* ui_components.py: what the window lets the user submit                  *)
(***************************************************************************)
project_music_path(project) == join(MUSIC_DIR, project)

\* VideoMakerWindow.__init__ line 37
project_movie_path(project) == join(MOVIE_DIR, project)

\* the project test of the slots, lines 61, 66, 72 and 80
belongs_to(folder, path) == contains(folder, normpath(path))

\* refresh_music_list, lines 209-214: of the names in the music folder of the
\* project, the music files offered in the list, those with no video of
\* their base name among the names in its video folder
music_files(names, videos) ==
    { f \in names :
        /\ \E e \in {wav, mp3, mid} : endswith(lower(f), e)
        /\ splitext(f)[1] \o mp4 \notin videos }

\* on_music_selected: current_music_path for a clicked item
on_music_selected(project, item) == join(project_music_path(project), item)

\* the keys start_export can submit: current_music_path of an item clicked
\* in a list filled while the project had no video; it stays selected when
\* the list is filled anew
UIKeys ==
    UNION { { on_music_selected(p, f) : f \in music_files(listdir(p), {}) } : p \in Projects }

(***************************************************************************)
(* Signals.  An emission is a record; status_update carries the file name  *)
(* shown and which of its three messages it is.                            *)
(***************************************************************************)
status_update(kind, name) == [sig |-> "status_update", path |-> name, info |-> kind]
task_submitted(music_path) == [sig |-> "task_submitted", path |-> music_path, info |-> ""]
task_finished(result_path) == [sig |-> "task_finished", path |-> result_path, info |-> ""]
task_failed(music_path, msg) == [sig |-> "task_failed", path |-> music_path, info |-> msg]

(***************************************************************************)
(* main.py: ExportManager                                                  *)
(***************************************************************************)
\* a faulty derivation that keeps the extension of the key in the base name
derived_output_path_keeps_ext(music_path) ==
    join(join(MOVIE_DIR, basename(dirname(music_path))), basename(music_path) \o mp4)

\* submit_task, lines 42-44: the output path derived from the key
derived_output_path(music_path) ==
    LET base_name == splitext(basename(music_path))[1]
        project_name == basename(dirname(music_path))
    IN join(join(MOVIE_DIR, project_name), base_name \o mp4)

\* a faulty candidate list, in the opposite order
possible_extensions_wav_first == <<wav, mp3, mid>>

\* a faulty candidate list, without .wav
possible_extensions_no_wav == <<mid, mp3>>

\* _on_task_completed, line 68
possible_extensions == <<mid, mp3, wav>>

\* _on_task_completed, line 71: the candidate key of extension i
path_to_check(project_name, base_name, i) ==
    join(join(MUSIC_DIR, project_name), base_name \o possible_extensions[i])

\* _on_task_completed, lines 69-75, run on a registry that does not change
\* meanwhile: the first candidate key that is in the registry, in the order
\* of possible_extensions from index i on; <<>> is None
RECURSIVE find_original(_, _, _, _)
find_original(project_name, base_name, active, i) ==
    IF i > Len(possible_extensions) THEN <<>>
    ELSE IF path_to_check(project_name, base_name, i) \in active
         THEN path_to_check(project_name, base_name, i)
         ELSE find_original(project_name, base_name, active, i + 1)

\* a faulty end of the callback: after the branch of a resolved key it falls
\* through and emits task_finished a second time
completed_emits_twice(result_path, found) ==
    IF found
    THEN <<status_update("done", basename(result_path)), task_finished(result_path),
           task_finished(result_path)>>
    ELSE <<task_finished(result_path)>>

\* a faulty end of the callback: with no key resolved it returns without a
\* signal
completed_emits_silent(result_path, found) ==
    IF found
    THEN <<status_update("done", basename(result_path)), task_finished(result_path)>>
    ELSE <<>>

\* _on_task_completed, lines 78-86: what it emits when it has resolved a key
\* and when it has not
completed_emits(result_path, found) ==
    IF found
    THEN <<status_update("done", basename(result_path)), task_finished(result_path)>>
    ELSE <<task_finished(result_path)>>

\* _on_task_completed(result_path) run on registry `active`: the registry it
\* leaves, the signals it emits in order, and the exception that escapes it
_on_task_completed(result_path, active) ==
    LET output_filename == basename(result_path)
        project_name == basename(dirname(result_path))
        base_name == splitext(output_filename)[1]
        original_music_path == find_original(project_name, base_name, active, 1)
    IN IF original_music_path # <<>>
       THEN [active |-> active \ {original_music_path},
             emitted |-> completed_emits(result_path, TRUE),
             raised |-> "None"]
       ELSE [active |-> active,
             emitted |-> completed_emits(result_path, FALSE),
             raised |-> "None"]

\* _on_task_failed(music_path, error) run on registry `active`
_on_task_failed(music_path, error, active) ==
    [active |-> IF music_path \in active THEN active \ {music_path} ELSE active,
     emitted |-> <<status_update("failed", basename(music_path)),
                   task_failed(music_path, error)>>,
     raised |-> "None"]

(***************************************************************************)
(* workers.py: what a run_export_process call can end with                 *)
(***************************************************************************)
is_midi(music_path) == endswith(lower(music_path), mid)

\* the exceptions run_export_process ends with for this source: the
\* RuntimeError of line 119 and, for a MIDI source, that of line 36 and the
\* OSError of a failed copy (line 99, line 19) or rename (line 41)
WorkerErrors(music_path) ==
    {"FFmpeg"} \cup (IF is_midi(music_path) THEN {"FluidSynth", "OSError"} ELSE {})

(***************************************************************************)
(* State machine                                                           *)
(***************************************************************************)
\* the files of one run_export_process call: the source, the export_in_<uuid>.mid
\* copy, the _temp_export_<uuid>.wav, the nested render's render_in_<uuid>.mid
\* and render_out_<uuid>.wav, and the output video
Files == {"music", "export_in", "temp_wav", "render_in", "render_out", "output", "cache"}
TempFiles == {"export_in", "temp_wav", "render_in", "render_out"}

NoLocals == [safe_input_midi_path |-> FALSE, temp_wav_path |-> FALSE,
             render_in |-> FALSE, render_out |-> FALSE]

\* the pool's thread is in no callback
NoScan == [t |-> 0, pc |-> "idle", i |-> 0, original |-> <<>>, at_call |-> {}]

CInit ==
    /\ active_tasks = {}
    /\ tasks = <<>>
    /\ outqueue = <<>>
    /\ scan = NoScan
    /\ ret = "None"
    /\ raised = "None"

\* no worker call is followed
WIdle ==
    /\ wargs = [call |-> "none", music_path |-> <<>>, output_path |-> <<>>,
                rest |-> <<>>, done |-> 0]
    /\ wpc = "idle"
    /\ fs = [f \in Files |-> "absent"]
    /\ loc = NoLocals
    /\ exc = "None"
    /\ rc = 0
    /\ result = "None"
    /\ seen = "nothing"

\* the life of the program is not followed
AIdle ==
    /\ a_pc = "idle"
    /\ env = [music_dir |-> TRUE, movie_dir |-> TRUE, soundfont |-> TRUE,
              ffmpeg |-> TRUE, fluidsynth |-> TRUE]
    /\ dep_errors = {}
    /\ pool_state = "none"
    /\ taskqueue = 0
    /\ executing = 0
    /\ results = 0
    /\ handled = 0
    /\ registry = 0
    /\ sig_submitted = 0
    /\ sig_terminal = 0
    /\ a_h = "idle"
    /\ a_ret = "None"
    /\ at_close = 0
    /\ hooks = <<>>
    /\ shutdown_calls = 0
    /\ temp_dir = TRUE

\* the callback has not returned
NoOutcome == [active |-> {}, emitted |-> <<>>, raised |-> "pending"]

\* no separate call of _on_task_completed is followed
RIdle ==
    /\ r_registry = {}
    /\ r_result_path = <<>>
    /\ r_outcome = NoOutcome

NoIterator == [size |-> 0, left |-> {}]

\* the threads are not followed
TIdle ==
    /\ t_registry = {}
    /\ t_jobs = <<>>
    /\ t_windows = <<>>
    /\ t_slots = <<>>
    /\ t_dialogs = 0
    /\ m_pc = "off"
    /\ m_call = "none"
    /\ m_key = <<>>
    /\ m_it = NoIterator
    /\ t_exc = "None"
    /\ h_pc = "off"
    /\ h_job = 0
    /\ h_ext = 0
    /\ h_key = <<>>

NoEvent == [sig |-> "none", path |-> <<>>, info |-> ""]

\* no window is followed
VIdle ==
    /\ v_project = <<>>
    /\ v_registry = {}
    /\ v_queue = <<>>
    /\ v_slots = <<>>
    /\ v_dialogs = 0
    /\ v_event = NoEvent
    /\ v_reacted = FALSE
    /\ v_shown = FALSE
    /\ v_h = NoEvent
    /\ v_pc = "idle"
    /\ v_call = "none"
    /\ v_it = NoIterator
    /\ v_exc = "None"

XIdle == AIdle /\ RIdle /\ TIdle /\ VIdle

Init == CInit /\ WIdle /\ XIdle

\* ExportManager.submit_task(music_path, image_path), called by start_export
\* in the main thread
submit_task(music_path, image_path) ==
    IF music_path \in active_tasks
    THEN /\ ret' = "False"
         /\ UNCHANGED <<active_tasks, tasks, outqueue, scan, raised, wvars, xvars>>
    ELSE /\ Len(tasks) < MaxTasks
         /\ active_tasks' = active_tasks \cup {music_path}
         /\ tasks' = Append(tasks,
                [music_path |-> music_path,
                 image_path |-> image_path,
                 output_path |-> derived_output_path(music_path),
                 st |-> "running",
                 error |-> "",
                 emitted |-> <<status_update("added",
                                   splitext(basename(music_path))[1] \o mp4),
                               task_submitted(music_path)>>])
         /\ ret' = "True"
         /\ UNCHANGED <<outqueue, scan, raised, wvars, xvars>>

\* run_export_process returns output_path
worker_return(t) ==
    /\ tasks[t].st = "running"
    /\ tasks' = [tasks EXCEPT ![t].st = "returned"]
    /\ outqueue' = Append(outqueue, t)
    /\ ret' = "None"
    /\ UNCHANGED <<active_tasks, scan, raised, wvars, xvars>>

\* run_export_process raises
worker_raise(t, e) ==
    /\ tasks[t].st = "running"
    /\ tasks' = [tasks EXCEPT ![t].st = "raised", ![t].error = e]
    /\ outqueue' = Append(outqueue, t)
    /\ ret' = "None"
    /\ UNCHANGED <<active_tasks, scan, raised, wvars, xvars>>

\* _on_task_completed, lines 70-79, for the result of task t: turn i of the
\* loop over possible_extensions. A candidate key found in the registry is
\* removed (line 79; the main thread only adds keys, so the test and the
\* remove are one step); after the last candidate nothing is removed; in
\* both cases the call then stands before its emissions. Otherwise it
\* stands before turn i + 1
scan_turn(t, i, at_call) ==
    LET result_path == tasks[t].output_path
        candidate == path_to_check(basename(dirname(result_path)),
                                   splitext(basename(result_path))[1], i)
    IN IF candidate \in active_tasks
       THEN /\ active_tasks' = active_tasks \ {candidate}
            /\ scan' = [t |-> t, pc |-> "emit", i |-> 0, original |-> candidate,
                        at_call |-> {}]
       ELSE /\ active_tasks' = active_tasks
            /\ scan' = IF i = Len(possible_extensions)
                       THEN [t |-> t, pc |-> "emit", i |-> 0, original |-> <<>>,
                             at_call |-> {}]
                       ELSE [t |-> t, pc |-> "scan", i |-> i + 1, original |-> <<>>,
                             at_call |-> at_call]

\* the pool's thread takes the oldest result and calls
\* callback=self._on_task_completed: lines 61-69, which read only the result
\* path, and the first turn of the loop
deliver_completed ==
    /\ scan = NoScan
    /\ outqueue # <<>>
    /\ tasks[Head(outqueue)].st = "returned"
    /\ scan_turn(Head(outqueue), 1, active_tasks)
    /\ ret' = "None"
    /\ UNCHANGED <<tasks, outqueue, raised, wvars, xvars>>

\* the pool's thread takes the next turn of the loop; the main thread may
\* have run submit_task since the turn before
completed_scan ==
    /\ scan.pc = "scan"
    /\ scan_turn(scan.t, scan.i, scan.at_call)
    /\ ret' = "None"
    /\ UNCHANGED <<tasks, outqueue, raised, wvars, xvars>>

\* the pool's thread, _on_task_completed lines 80-81 or 86: the emissions;
\* the main thread may have run submit_task since the remove
completed_emit ==
    /\ scan.pc = "emit"
    /\ tasks[scan.t].st = "returned"
    /\ tasks' = [tasks EXCEPT
          ![scan.t].st = "done",
          ![scan.t].emitted =
              @ \o completed_emits(tasks[scan.t].output_path, scan.original # <<>>)]
    /\ outqueue' = Tail(outqueue)
    /\ scan' = NoScan
    /\ raised' = "None"
    /\ ret' = "None"
    /\ UNCHANGED <<active_tasks, wvars, xvars>>

\* the pool's thread takes the oldest result and calls error_callback, the
\* lambda closing over the submitted music_path: _on_task_failed lines
\* 95-96, the test and the remove
deliver_failed ==
    /\ scan = NoScan
    /\ outqueue # <<>>
    /\ tasks[Head(outqueue)].st = "raised"
    /\ LET t == Head(outqueue)
       IN /\ active_tasks' =
                _on_task_failed(tasks[t].music_path, tasks[t].error, active_tasks).active
          /\ scan' = [t |-> t, pc |-> "emit", i |-> 0, original |-> <<>>, at_call |-> {}]
    /\ ret' = "None"
    /\ UNCHANGED <<tasks, outqueue, raised, wvars, xvars>>

\* the pool's thread, _on_task_failed lines 98-100: the emissions; the main
\* thread may have run submit_task since the remove
failed_emit ==
    /\ scan.pc = "emit"
    /\ tasks[scan.t].st = "raised"
    /\ LET t == scan.t
           r == _on_task_failed(tasks[t].music_path, tasks[t].error, active_tasks)
       IN /\ tasks' = [tasks EXCEPT ![t].st = "done",
                                    ![t].emitted = @ \o r.emitted]
          /\ raised' = r.raised
    /\ outqueue' = Tail(outqueue)
    /\ scan' = NoScan
    /\ ret' = "None"
    /\ UNCHANGED <<active_tasks, wvars, xvars>>

Next ==
    \/ \E k \in UIKeys, img \in Images : submit_task(k, img)
    \/ \E t \in 1..Len(tasks) : worker_return(t)
    \/ \E t \in 1..Len(tasks) : \E e \in WorkerErrors(tasks[t].music_path) : worker_raise(t, e)
    \/ deliver_completed
    \/ completed_scan
    \/ completed_emit
    \/ deliver_failed
    \/ failed_emit

Spec == Init /\ [][Next]_vars

(***************************************************************************)
(* workers.py: one run_export_process(music_path, image_path, output_path) *)
(* call, step by step, with a concurrent reader of output_path; or one     *)
(* MidiRenderWorker.run or MidiPreRenderWorker.run call.                   *)
(* A file's content is "absent", "empty" (created, nothing written),       *)
(* "partial", "complete", or for the output "old" (the complete video of   *)
(* an earlier export).                                                     *)
(***************************************************************************)
exists(f) == fs[f] # "absent"

\* config.py line 16: os.path.join(tempfile.gettempdir(), "game_music_video_maker")
TEMP_DIR == <<"/", "t">>

\* MidiRenderWorker.run line 61 (and MidiPreRenderWorker.run line 82): where
\* the rendered waveform of a MIDI file is kept
final_cached_wav_path(midi_path) == join(TEMP_DIR, basename(midi_path) \o wav)

\* the arguments of _render_midi_to_wav_internal in the call followed: line 102
\* in an export, line 62 in a preview, line 83 in a pre-render
InputMidi == IF wargs.call = "export" THEN "export_in" ELSE "music"
OutputWav == IF wargs.call = "export" THEN "temp_wav" ELSE "cache"

\* number of files in the list of a MidiPreRenderWorker
MaxPrerender == 2

\* the lists MidiPreRenderWorker is constructed with: MIDI files of a project
PrerenderLists ==
    UNION { { lst \in [1..n -> {k \in UIKeys : is_midi(k)}] :
                /\ \A i, j \in 1..n : i # j => lst[i] # lst[j]
                /\ \A i, j \in 1..n : dirname(lst[i]) = dirname(lst[j]) } :
            n \in 0..MaxPrerender }

\* the call starts (lines 92-95, line 60 for a preview, line 77 for a
\* pre-render): the source may have been deleted since it was listed, a video
\* of an earlier export may be at output_path and a waveform rendered earlier
\* may be in the cache
WInit ==
    /\ CInit
    /\ XIdle
    /\ \/ \E k \in UIKeys :
             \/ wargs = [call |-> "export", music_path |-> k,
                         output_path |-> derived_output_path(k),
                         rest |-> <<>>, done |-> 0]
             \/ /\ is_midi(k)
                /\ wargs = [call |-> "preview", music_path |-> k,
                            output_path |-> final_cached_wav_path(k),
                            rest |-> <<>>, done |-> 0]
       \/ \E lst \in PrerenderLists :
             wargs = [call |-> "prerender", music_path |-> <<>>, output_path |-> <<>>,
                      rest |-> lst, done |-> 0]
    /\ wpc = "start"
    /\ \E m \in {"absent", "complete"}, o \in {"absent", "old"}, c \in {"absent", "old"} :
          /\ wargs.call # "export" => o = "absent"
          /\ fs = [f \in Files |-> IF f = "music" THEN m
                                   ELSE IF f = "output" THEN o
                                   ELSE IF f = "cache" THEN c ELSE "absent"]
    /\ loc = NoLocals
    /\ exc = "None"
    /\ rc = 0
    /\ result = "None"
    /\ seen = "nothing"

\* lines 95-105: the MIDI branch or the direct one
w_branch ==
    /\ wpc = "start"
    /\ wargs.call # "prerender"
    /\ wpc' = IF wargs.call = "preview" THEN "render_copy"
              ELSE IF is_midi(wargs.music_path) THEN "copy" ELSE "mux"
    /\ UNCHANGED <<wargs, fs, loc, exc, rc, result, seen, cvars, xvars>>

\* lines 98-100: shutil.copy(music_path, safe_input_midi_path), which raises
\* with nothing created when the source is missing and may fail part-way
w_copy ==
    /\ wpc = "copy"
    /\ \/ /\ exists("music")
          /\ fs' = [fs EXCEPT !["export_in"] = "complete"]
          /\ loc' = [loc EXCEPT !.safe_input_midi_path = TRUE, !.temp_wav_path = TRUE]
          /\ exc' = "None"
          /\ wpc' = "render_copy"
       \/ /\ exists("music")
          /\ fs' = [fs EXCEPT !["export_in"] = "partial"]
          /\ loc' = [loc EXCEPT !.safe_input_midi_path = TRUE]
          /\ exc' = "OSError"
          /\ wpc' = "finally"
       \/ /\ ~exists("music")
          /\ fs' = fs
          /\ loc' = [loc EXCEPT !.safe_input_midi_path = TRUE]
          /\ exc' = "OSError"
          /\ wpc' = "finally"
    /\ UNCHANGED <<wargs, rc, result, seen, cvars, xvars>>

\* _render_midi_to_wav_internal lines 18-22: the copy to render_in_<uuid>.mid
r_copy ==
    /\ wpc = "render_copy"
    /\ \/ /\ exists(InputMidi)
          /\ fs' = [fs EXCEPT !["render_in"] = "complete"]
          /\ loc' = [loc EXCEPT !.render_in = TRUE, !.render_out = TRUE]
          /\ exc' = "None"
          /\ wpc' = "synth"
       \/ /\ exists(InputMidi)
          /\ fs' = [fs EXCEPT !["render_in"] = "partial"]
          /\ loc' = [loc EXCEPT !.render_in = TRUE]
          /\ exc' = "OSError"
          /\ wpc' = "render_finally"
       \/ /\ ~exists(InputMidi)
          /\ fs' = fs
          /\ loc' = [loc EXCEPT !.render_in = TRUE]
          /\ exc' = "OSError"
          /\ wpc' = "render_finally"
    /\ UNCHANGED <<wargs, rc, result, seen, cvars, xvars>>

\* a faulty render that lets fluidsynth write to output_wav_path itself
r_synth_in_place ==
    /\ wpc = "synth"
    /\ \E code \in {0, 1}, out \in {"absent", "partial", "complete"} :
          /\ rc' = code
          /\ fs' = [fs EXCEPT ![OutputWav] = out]
          /\ IF code # 0 \/ out = "absent"
             THEN exc' = "FluidSynth" /\ wpc' = "render_finally"
             ELSE exc' = "None" /\ wpc' = "render_finally"
    /\ UNCHANGED <<wargs, loc, result, seen, cvars, xvars>>

\* lines 29-36: fluidsynth runs and leaves an exit code and, or not, a file at
\* safe_output_wav_path; the check of both
r_synth ==
    /\ wpc = "synth"
    /\ \E code \in {0, 1}, out \in {"absent", "partial", "complete"} :
          /\ rc' = code
          /\ fs' = [fs EXCEPT !["render_out"] = out]
          /\ IF code # 0 \/ out = "absent"
             THEN exc' = "FluidSynth" /\ wpc' = "render_finally"
             ELSE exc' = "None" /\ wpc' = "place"
    /\ UNCHANGED <<wargs, loc, result, seen, cvars, xvars>>

\* lines 39-41: remove a file at output_wav_path, then os.rename, which fails
\* when TEMP_DIR and the output folder are on different volumes
r_place ==
    /\ wpc = "place"
    /\ \/ /\ fs' = [fs EXCEPT ![OutputWav] = fs["render_out"],
                              !["render_out"] = "absent"]
          /\ exc' = "None"
       \/ /\ fs' = [fs EXCEPT ![OutputWav] = "absent"]
          /\ exc' = "OSError"
    /\ wpc' = "render_finally"
    /\ UNCHANGED <<wargs, loc, rc, result, seen, cvars, xvars>>

\* the os.remove of a finally clause: `if path and os.path.exists(path)`
remove_if(files, f, assigned) ==
    IF assigned /\ files[f] # "absent" THEN [files EXCEPT ![f] = "absent"] ELSE files

\* lines 43-48: the finally clause of _render_midi_to_wav_internal
render_finally(files) ==
    remove_if(remove_if(files, "render_in", loc.render_in),
              "render_out", loc.render_out)

r_finally ==
    /\ wpc = "render_finally"
    /\ fs' = render_finally(fs)
    /\ wpc' = IF wargs.call = "preview" THEN "emit"
              ELSE IF wargs.call = "prerender" THEN "loop"
              ELSE IF exc = "None" THEN "mux" ELSE "finally"
    /\ UNCHANGED <<wargs, loc, exc, rc, result, seen, cvars, xvars>>

\* lines 107-116: ffmpeg -y ... output_path starts: it fails at once, or ends
\* with exit code 0 having written nothing, or opens output_path for writing
ff_open ==
    /\ wpc = "mux"
    /\ \/ rc' = 1 /\ fs' = fs /\ wpc' = "mux_check"
       \/ rc' = 0 /\ fs' = fs /\ wpc' = "mux_check"
       \/ rc' = rc /\ fs' = [fs EXCEPT !["output"] = "empty"] /\ wpc' = "mux_write"
    /\ UNCHANGED <<wargs, loc, exc, result, seen, cvars, xvars>>

\* ffmpeg writes the video to output_path, and may fail while it does
ff_write ==
    /\ wpc = "mux_write"
    /\ \/ /\ fs["output"] = "empty"
          /\ fs' = [fs EXCEPT !["output"] = "partial"]
          /\ UNCHANGED <<rc, wpc>>
       \/ /\ fs["output"] = "partial"
          /\ fs' = [fs EXCEPT !["output"] = "complete"]
          /\ rc' = 0
          /\ wpc' = "mux_check"
       \/ /\ rc' = 1
          /\ wpc' = "mux_check"
          /\ fs' = fs
    /\ UNCHANGED <<wargs, loc, exc, result, seen, cvars, xvars>>

\* lines 117-121: the check of ffmpeg's exit code
mux_check ==
    /\ wpc = "mux_check"
    /\ exc' = IF rc # 0 THEN "FFmpeg" ELSE "None"
    /\ wpc' = "finally"
    /\ UNCHANGED <<wargs, fs, loc, rc, result, seen, cvars, xvars>>

\* a faulty finally clause that forgets the _temp_export_<uuid>.wav
export_finally_keeps_wav(files) ==
    remove_if(files, "export_in", loc.safe_input_midi_path)

\* lines 122-126: the finally clause of run_export_process
export_finally(files) ==
    remove_if(remove_if(files, "export_in", loc.safe_input_midi_path),
              "temp_wav", loc.temp_wav_path)

\* the finally clause runs and the call returns output_path or raises
w_finally ==
    /\ wpc = "finally"
    /\ fs' = export_finally(fs)
    /\ result' = IF exc = "None" THEN "returned" ELSE exc
    /\ wpc' = "done"
    /\ UNCHANGED <<wargs, loc, exc, rc, seen, cvars, xvars>>

\* MidiRenderWorker.run lines 63-65: finished(final_cached_wav_path) or
\* error(str(e)) is emitted
p_emit ==
    /\ wpc = "emit"
    /\ wargs.call = "preview"
    /\ result' = IF exc = "None" THEN "finished" ELSE "error"
    /\ wpc' = "done"
    /\ UNCHANGED <<wargs, fs, loc, exc, rc, seen, cvars, xvars>>

\* MidiPreRenderWorker.run lines 77-83 and 84-86: the loop takes the next
\* file of the list, whatever the turn before it ended with, and emits
\* progress_update(base_name, i + 1, total); the source of that file may have
\* been deleted and a waveform rendered earlier may be in its cache entry
pre_loop ==
    /\ wargs.call = "prerender"
    /\ wpc \in {"start", "loop"}
    /\ IF wargs.rest = <<>>
       THEN /\ wpc' = "emit"
            /\ UNCHANGED <<wargs, fs, loc, exc>>
       ELSE /\ wargs' = [wargs EXCEPT !.music_path = Head(wargs.rest),
                                      !.output_path = final_cached_wav_path(Head(wargs.rest)),
                                      !.rest = Tail(wargs.rest),
                                      !.done = @ + 1]
            /\ \E m \in {"absent", "complete"}, c \in {"absent", "old"} :
                  fs' = IF wpc = "start" THEN fs
                        ELSE [fs EXCEPT !["music"] = m, !["cache"] = c]
            /\ loc' = NoLocals
            /\ exc' = "None"
            /\ wpc' = "render_copy"
    /\ UNCHANGED <<rc, result, seen, cvars, xvars>>

\* MidiPreRenderWorker.run line 87: finished() is emitted
pre_finished ==
    /\ wpc = "emit"
    /\ wargs.call = "prerender"
    /\ result' = "finished"
    /\ wpc' = "done"
    /\ UNCHANGED <<wargs, fs, loc, exc, rc, seen, cvars, xvars>>

\* another process looks at output_path
read_output ==
    /\ wpc # "idle"
    /\ seen' = fs["output"]
    /\ UNCHANGED <<wargs, wpc, fs, loc, exc, rc, result, cvars, xvars>>

WNext ==
    \/ w_branch
    \/ w_copy
    \/ r_copy
    \/ r_synth
    \/ r_place
    \/ r_finally
    \/ ff_open
    \/ ff_write
    \/ mux_check
    \/ w_finally
    \/ p_emit
    \/ pre_loop
    \/ pre_finished
    \/ read_output

WorkerSpec == WInit /\ [][WNext]_vars

(***************************************************************************)
(* The life of the program (specification AppSpec): main.py's __main__     *)
(* block, the pool of worker processes and shutdown().  Tasks and keys are *)
(* counted; whether a callback finds a key to remove depends on the keys   *)
(* (specification Spec) and is an input of the step here.                  *)
(***************************************************************************)
\* config.py line 7
MAX_CONCURRENT_EXPORTS == 8

\* number of accepted submit_task calls in one run
MaxJobs == 10

\* number of submit_task calls accepted after shutdown() was called
MaxLate == 1

\* a pool of one worker process more than the configuration allows
processes_one_more == MAX_CONCURRENT_EXPORTS + 1

\* __init__ line 33: Pool(processes=MAX_CONCURRENT_EXPORTS)
processes == MAX_CONCURRENT_EXPORTS

\* a check_dependencies that forgets the synthesis tool
check_dependencies_no_fluidsynth(e) ==
    (IF e.music_dir THEN {} ELSE {"Music"})
    \cup (IF e.soundfont THEN {} ELSE {"soundfont.sf2"})
    \cup (IF e.ffmpeg THEN {} ELSE {"ffmpeg"})

\* check_dependencies: the errors it returns
check_dependencies(e) ==
    (IF e.music_dir THEN {} ELSE {"Music"})
    \cup (IF e.soundfont THEN {} ELSE {"soundfont.sf2"})
    \cup (IF e.ffmpeg THEN {} ELSE {"ffmpeg"})
    \cup (IF e.fluidsynth THEN {} ELSE {"fluidsynth"})

\* the program is started in some installation
AInit ==
    /\ CInit
    /\ WIdle
    /\ RIdle
    /\ TIdle
    /\ VIdle
    /\ a_pc = "start"
    /\ env \in [{"music_dir", "movie_dir", "soundfont", "ffmpeg", "fluidsynth"} -> BOOLEAN]
    /\ dep_errors = {}
    /\ pool_state = "none"
    /\ taskqueue = 0
    /\ executing = 0
    /\ results = 0
    /\ handled = 0
    /\ registry = 0
    /\ sig_submitted = 0
    /\ sig_terminal = 0
    /\ a_h = "idle"
    /\ a_ret = "None"
    /\ at_close = 0
    /\ hooks = <<>>
    /\ shutdown_calls = 0
    /\ temp_dir = TRUE

\* line 129: dep_errors = check_dependencies(), which creates the two folders
a_check ==
    /\ a_pc = "start"
    /\ dep_errors' = check_dependencies(env)
    /\ env' = [env EXCEPT !.music_dir = TRUE, !.movie_dir = TRUE]
    /\ a_pc' = "checked"
    /\ a_ret' = "None"
    /\ UNCHANGED <<a_h, pool_state, taskqueue, executing, results, handled, registry,
                   sig_submitted, sig_terminal, at_close, evars, cvars, wvars, rvars, tvars, vvars>>

\* lines 130-132: the message box and sys.exit(1)
a_exit ==
    /\ a_pc = "checked"
    /\ dep_errors # {}
    /\ a_pc' = "exited"
    /\ a_ret' = "None"
    /\ UNCHANGED <<a_h, env, dep_errors, pool_state, taskqueue, executing, results, handled,
                   registry, sig_submitted, sig_terminal, at_close, evars, cvars, wvars,
                   rvars, tvars, vvars>>

\* a faulty registration: shutdown first, cleanup_temp_files after it
atexit_registered_cleanup_last == <<"shutdown", "cleanup_temp_files">>

\* lines 134 and 136: atexit.register(cleanup_temp_files), then
\* atexit.register(export_manager.shutdown)
atexit_registered == <<"cleanup_temp_files", "shutdown">>

\* lines 134-142: the atexit hooks, ExportManager.get_instance() with its pool,
\* the window and the event loop
a_create ==
    /\ a_pc = "checked"
    /\ dep_errors = {}
    /\ pool_state' = "RUN"
    /\ hooks' = atexit_registered
    /\ a_pc' = "running"
    /\ a_ret' = "None"
    /\ UNCHANGED <<a_h, env, dep_errors, taskqueue, executing, results, handled, registry,
                   sig_submitted, sig_terminal, at_close, shutdown_calls, temp_dir,
                   cvars, wvars, rvars, tvars, vvars>>

\* the tasks of the pool that have not been handled yet
Unfinished == taskqueue + executing + results

\* a submit_task that dispatches with the blocking Pool.apply
a_submit_blocking ==
    /\ pool_state = "RUN"
    /\ executing < processes
    /\ taskqueue = 0
    /\ sig_submitted < MaxJobs
    /\ registry' = registry + 1
    /\ sig_submitted' = sig_submitted + 1
    /\ taskqueue' = taskqueue + 1
    /\ a_ret' = "True"
    /\ UNCHANGED <<a_h, a_pc, env, dep_errors, pool_state, executing, results, handled,
                   sig_terminal, at_close, evars, cvars, wvars, rvars, tvars, vvars>>

\* submit_task of a key that is not in the registry: lines 41-55. apply_async
\* puts the task on the pool's queue and returns; when the pool is no longer
\* running it raises ValueError("Pool not running")
a_submit ==
    /\ pool_state # "none"
    /\ sig_submitted < MaxJobs
    /\ pool_state = "CLOSE" => sig_submitted - handled - Unfinished < MaxLate
    /\ registry' = registry + 1
    /\ sig_submitted' = sig_submitted + 1
    /\ IF pool_state = "RUN"
       THEN taskqueue' = taskqueue + 1 /\ a_ret' = "True"
       ELSE taskqueue' = taskqueue /\ a_ret' = "ValueError"
    /\ UNCHANGED <<a_h, a_pc, env, dep_errors, pool_state, executing, results, handled,
                   sig_terminal, at_close, evars, cvars, wvars, rvars, tvars, vvars>>

\* submit_task of a key that is in the registry: lines 38-39
a_submit_rejected ==
    /\ pool_state # "none"
    /\ registry > 0
    /\ a_ret' = "False"
    /\ UNCHANGED <<a_h, a_pc, env, dep_errors, pool_state, taskqueue, executing, results,
                   handled, registry, sig_submitted, sig_terminal, at_close, evars,
                   cvars, wvars, rvars, tvars, vvars>>

\* an idle worker process takes the next task from the queue
a_start ==
    /\ taskqueue > 0
    /\ executing < processes
    /\ taskqueue' = taskqueue - 1
    /\ executing' = executing + 1
    /\ a_ret' = "None"
    /\ UNCHANGED <<a_h, a_pc, env, dep_errors, pool_state, results, handled, registry,
                   sig_submitted, sig_terminal, at_close, evars, cvars, wvars, rvars, tvars, vvars>>

\* run_export_process returns or raises in a worker process
a_end ==
    /\ executing > 0
    /\ executing' = executing - 1
    /\ results' = results + 1
    /\ a_ret' = "None"
    /\ UNCHANGED <<a_h, a_pc, env, dep_errors, pool_state, taskqueue, handled, registry,
                   sig_submitted, sig_terminal, at_close, evars, cvars, wvars, rvars, tvars, vvars>>

\* the pool's result-handler thread runs _on_task_completed or
\* _on_task_failed of one task up to its emissions: when it finds a key in
\* the registry (lines 73-79, lines 95-96) that key leaves the registry,
\* otherwise nothing does (line 82)
a_callback(found) ==
    /\ a_h = "idle"
    /\ results > 0
    /\ found => registry > 0
    /\ registry' = IF found THEN registry - 1 ELSE registry
    /\ a_h' = "emit"
    /\ a_ret' = "None"
    /\ UNCHANGED <<a_pc, env, dep_errors, pool_state, taskqueue, executing, results, handled,
                   sig_submitted, sig_terminal, at_close, evars, cvars, wvars, rvars, tvars,
                   vvars>>

\* the callback emits its terminal event (lines 80-81, 86 or 99-100) and
\* returns: the result is handled
a_emit ==
    /\ a_h = "emit"
    /\ results' = results - 1
    /\ handled' = handled + 1
    /\ sig_terminal' = sig_terminal + 1
    /\ a_h' = "idle"
    /\ a_ret' = "None"
    /\ UNCHANGED <<a_pc, env, dep_errors, pool_state, taskqueue, executing, registry,
                   sig_submitted, at_close, evars, cvars, wvars, rvars, tvars, vvars>>

\* line 142: app.exec() returns and sys.exit begins to run the atexit hooks,
\* the last registered first
a_quit ==
    /\ a_pc = "running"
    /\ a_pc' = "exiting"
    /\ a_ret' = "None"
    /\ UNCHANGED <<a_h, env, dep_errors, pool_state, taskqueue, executing, results, handled,
                   registry, sig_submitted, sig_terminal, at_close, evars,
                   cvars, wvars, rvars, tvars, vvars>>

\* the hook atexit runs next
next_hook == IF hooks = <<>> THEN "none" ELSE hooks[Len(hooks)]

\* atexit runs the shutdown hook: shutdown() line 104, pool.close()
shutdown_close ==
    /\ a_pc \in {"exiting", "shut"}
    /\ next_hook = "shutdown"
    /\ hooks' = SubSeq(hooks, 1, Len(hooks) - 1)
    /\ shutdown_calls' = shutdown_calls + 1
    /\ pool_state' = "CLOSE"
    /\ at_close' = Unfinished
    /\ a_pc' = "joining"
    /\ a_ret' = "None"
    /\ UNCHANGED <<a_h, env, dep_errors, taskqueue, executing, results, handled, registry,
                   sig_submitted, sig_terminal, temp_dir, cvars, wvars, rvars, tvars, vvars>>

\* atexit runs the cleanup hook: cleanup_temp_files, lines 117-120
cleanup_temp_files ==
    /\ a_pc \in {"exiting", "shut"}
    /\ next_hook = "cleanup_temp_files"
    /\ hooks' = SubSeq(hooks, 1, Len(hooks) - 1)
    /\ temp_dir' = FALSE
    /\ a_ret' = "None"
    /\ UNCHANGED <<a_h, a_pc, env, dep_errors, pool_state, taskqueue, executing, results,
                   handled, registry, sig_submitted, sig_terminal, at_close,
                   shutdown_calls, cvars, wvars, rvars, tvars, vvars>>

\* a shutdown() that ends the pool with terminate(): the workers are killed
\* and join() returns at once
join_returns_terminated == TRUE

\* line 105, pool.join(): it returns when the queue is drained, the worker
\* processes have exited and the result handler has handled every result
join_returns == taskqueue = 0 /\ executing = 0 /\ results = 0

shutdown_join ==
    /\ a_pc = "joining"
    /\ join_returns
    /\ a_pc' = "shut"
    /\ a_ret' = "None"
    /\ UNCHANGED <<a_h, env, dep_errors, pool_state, taskqueue, executing, results, handled,
                   registry, sig_submitted, sig_terminal, at_close, evars, cvars, wvars,
                   rvars, tvars, vvars>>

ANext ==
    \/ a_check
    \/ a_exit
    \/ a_create
    \/ a_submit
    \/ a_submit_rejected
    \/ a_start
    \/ a_end
    \/ \E found \in BOOLEAN : a_callback(found)
    \/ a_emit
    \/ a_quit
    \/ shutdown_close
    \/ shutdown_join
    \/ cleanup_temp_files

AppSpec == AInit /\ [][ANext]_vars

(***************************************************************************)
(* One call of _on_task_completed (specification ReconcileSpec): the       *)
(* callback applied to a result path on every registry of keys of a music  *)
(* folder that holds the three formats of a track in both projects         *)
(***************************************************************************)
ReconcileKeys ==
    UIKeys \cup { on_music_selected(p, <<"a">> \o e) : p \in Projects, e \in {mid, mp3, wav} }

RInit ==
    /\ CInit
    /\ WIdle
    /\ AIdle
    /\ TIdle
    /\ VIdle
    /\ r_registry \in SUBSET ReconcileKeys
    /\ r_result_path \in { derived_output_path(k) : k \in ReconcileKeys }
    /\ r_outcome = NoOutcome

\* the result handler calls _on_task_completed(result_path)
r_call ==
    /\ r_outcome = NoOutcome
    /\ r_outcome' = _on_task_completed(r_result_path, r_registry)
    /\ UNCHANGED <<r_registry, r_result_path, cvars, wvars, avars, tvars, vvars>>

RNext == r_call

ReconcileSpec == RInit /\ [][RNext]_vars

(***************************************************************************)
(* The two threads that touch active_tasks (specification ThreadSpec).     *)
(* submit_task and the window's refresh_task_queue run in the Qt main      *)
(* thread; the pool calls callback and error_callback in its own           *)
(* result-handler thread.  A step is one statement of one thread.          *)
(***************************************************************************)
\* number of accepted submit_task calls in one run
MaxThreadTasks == 2

\* number of project windows created in one run
MaxWindows == 1

TInit ==
    /\ CInit
    /\ WIdle
    /\ AIdle
    /\ RIdle
    /\ VIdle
    /\ t_registry = {}
    /\ t_jobs = <<>>
    /\ t_windows = <<>>
    /\ t_slots = <<>>
    /\ t_dialogs = 0
    /\ m_pc = "idle"
    /\ m_call = "none"
    /\ m_key = <<>>
    /\ m_it = NoIterator
    /\ t_exc = "None"
    /\ h_pc = "idle"
    /\ h_job = 0
    /\ h_ext = 0
    /\ h_key = <<>>

\* main thread, start_export while no message box blocks the windows;
\* submit_task lines 38-39: the membership test
m_check(music_path) ==
    /\ m_pc = "idle"
    /\ t_dialogs = 0
    /\ Len(t_jobs) < MaxThreadTasks
    /\ IF music_path \in t_registry
       THEN UNCHANGED <<m_pc, m_call, m_key>>
       ELSE m_pc' = "add" /\ m_call' = "submit_task" /\ m_key' = music_path
    /\ UNCHANGED <<t_registry, t_jobs, t_windows, t_slots, t_dialogs, m_it, t_exc,
                   h_pc, h_job, h_ext, h_key, cvars, wvars, avars, rvars, vvars>>

\* main thread, line 41: self.active_tasks.add(music_path)
m_add ==
    /\ m_pc = "add"
    /\ t_registry' = t_registry \cup {m_key}
    /\ m_pc' = "dispatch"
    /\ UNCHANGED <<t_jobs, t_windows, t_slots, t_dialogs, m_call, m_key, m_it, t_exc,
                   h_pc, h_job, h_ext, h_key, cvars, wvars, avars, rvars, vvars>>

\* main thread, lines 42-55: the emissions and apply_async
m_dispatch ==
    /\ m_pc = "dispatch"
    /\ t_jobs' = Append(t_jobs, [music_path |-> m_key,
                                 output_path |-> derived_output_path(m_key),
                                 st |-> "running"])
    /\ m_pc' = "idle"
    /\ m_call' = "none"
    /\ m_key' = <<>>
    /\ UNCHANGED <<t_registry, t_windows, t_slots, t_dialogs, m_it, t_exc,
                   h_pc, h_job, h_ext, h_key, cvars, wvars, avars, rvars, vvars>>

\* refresh_task_queue line 79: iter(self.export_manager.active_tasks)
set_iter == [size |-> Cardinality(t_registry), left |-> t_registry]

\* the project test of a queued slot call, line 66 or line 72
slot_passes(call) ==
    IF call.sig = "task_finished"
    THEN belongs_to(project_movie_path(call.project), call.path)
    ELSE belongs_to(project_music_path(call.project), call.path)

\* main thread: the event loop (that of the application or of an open
\* message box) runs the oldest queued call of a slot _on_task_finished
\* or _on_task_failed, which calls refresh_task_queue for a task of the
\* window's project and returns otherwise. Between taking the call and
\* iter() the slot reads nothing the pool's thread writes
m_slot ==
    /\ m_pc = "idle"
    /\ t_slots # <<>>
    /\ t_slots' = Tail(t_slots)
    /\ IF slot_passes(Head(t_slots))
       THEN /\ m_it' = set_iter
            /\ m_pc' = "iterate"
            /\ m_call' = IF Head(t_slots).sig = "task_finished"
                         THEN "_on_task_finished" ELSE "_on_task_failed"
       ELSE UNCHANGED <<m_it, m_pc, m_call>>
    /\ UNCHANGED <<t_registry, t_jobs, t_windows, t_dialogs, m_key, t_exc,
                   h_pc, h_job, h_ext, h_key, cvars, wvars, avars, rvars, vvars>>

\* main thread: MainWindow.open_project creates the window of a project;
\* VideoMakerWindow.__init__ runs up to its first connect, lines 31-47
m_open(project) ==
    /\ m_pc = "idle"
    /\ t_dialogs = 0
    /\ Len(t_windows) < MaxWindows
    /\ t_windows' = Append(t_windows, project)
    /\ m_pc' = "connect_submitted"
    /\ m_call' = "__init__"
    /\ UNCHANGED <<t_registry, t_jobs, t_slots, t_dialogs, m_key, m_it, t_exc,
                   h_pc, h_job, h_ext, h_key, cvars, wvars, avars, rvars, vvars>>

\* main thread: __init__ line 49, task_submitted.connect
m_connect_submitted ==
    /\ m_pc = "connect_submitted"
    /\ m_pc' = "connect_finished"
    /\ UNCHANGED <<t_registry, t_jobs, t_windows, t_slots, t_dialogs, m_call, m_key, m_it,
                   t_exc, h_pc, h_job, h_ext, h_key, cvars, wvars, avars, rvars, vvars>>

\* main thread: __init__ line 50, task_finished.connect
m_connect_finished ==
    /\ m_pc = "connect_finished"
    /\ m_pc' = "connect_failed"
    /\ UNCHANGED <<t_registry, t_jobs, t_windows, t_slots, t_dialogs, m_call, m_key, m_it,
                   t_exc, h_pc, h_job, h_ext, h_key, cvars, wvars, avars, rvars, vvars>>

\* main thread: __init__ line 51, task_failed.connect
m_connect_failed ==
    /\ m_pc = "connect_failed"
    /\ m_pc' = "refresh"
    /\ UNCHANGED <<t_registry, t_jobs, t_windows, t_slots, t_dialogs, m_call, m_key, m_it,
                   t_exc, h_pc, h_job, h_ext, h_key, cvars, wvars, avars, rvars, vvars>>

\* main thread: __init__ has run refresh_music_list, line 54, and calls
\* refresh_task_queue, line 55, which makes the iterator of its loop
m_iter ==
    /\ m_pc = "refresh"
    /\ m_it' = set_iter
    /\ m_pc' = "iterate"
    /\ UNCHANGED <<t_registry, t_jobs, t_windows, t_slots, t_dialogs, m_call, m_key, t_exc,
                   h_pc, h_job, h_ext, h_key, cvars, wvars, avars, rvars, vvars>>

\* main thread, lines 79-81: one step of the for loop. The iterator of a set
\* raises RuntimeError when the set has changed size since iter(); after the
\* loop _on_task_failed opens its message box, line 74
m_next ==
    /\ m_pc = "iterate"
    /\ IF Cardinality(t_registry) # m_it.size
       THEN /\ t_exc' = "RuntimeError"
            /\ m_it' = NoIterator
            /\ m_pc' = "idle"
            /\ m_call' = "none"
            /\ t_dialogs' = t_dialogs
       ELSE IF m_it.left \cap t_registry = {}
       THEN /\ t_exc' = t_exc
            /\ m_it' = NoIterator
            /\ m_pc' = "idle"
            /\ m_call' = "none"
            /\ t_dialogs' = IF m_call = "_on_task_failed" THEN t_dialogs + 1 ELSE t_dialogs
       ELSE /\ t_exc' = t_exc
            /\ \E task_path \in m_it.left \cap t_registry :
                  m_it' = [m_it EXCEPT !.left = @ \ {task_path}]
            /\ m_pc' = "iterate"
            /\ UNCHANGED <<m_call, t_dialogs>>
    /\ UNCHANGED <<t_registry, t_jobs, t_windows, t_slots, m_key,
                   h_pc, h_job, h_ext, h_key, cvars, wvars, avars, rvars, vvars>>

\* main thread: the user closes the message box opened last
m_dismiss ==
    /\ m_pc = "idle"
    /\ t_dialogs > 0
    /\ t_dialogs' = t_dialogs - 1
    /\ UNCHANGED <<t_registry, t_jobs, t_windows, t_slots, m_pc, m_call, m_key, m_it, t_exc,
                   h_pc, h_job, h_ext, h_key, cvars, wvars, avars, rvars, vvars>>

\* result-handler thread: the result of a worker that returned arrives and
\* _on_task_completed starts, lines 61-69
h_completed(j) ==
    /\ h_pc = "idle"
    /\ t_jobs[j].st = "running"
    /\ t_jobs' = [t_jobs EXCEPT ![j].st = "handling"]
    /\ h_job' = j
    /\ h_ext' = 1
    /\ h_pc' = "scan"
    /\ UNCHANGED <<t_registry, t_windows, t_slots, t_dialogs, m_pc, m_call, m_key, m_it,
                   t_exc, h_key, cvars, wvars, avars, rvars, vvars>>

\* result-handler thread, lines 70-75: one turn of the loop over
\* possible_extensions, with its membership test
h_scan ==
    /\ h_pc = "scan"
    /\ LET result_path == t_jobs[h_job].output_path
           candidate == path_to_check(basename(dirname(result_path)),
                                      splitext(basename(result_path))[1], h_ext)
       IN IF candidate \in t_registry
          THEN h_key' = candidate /\ h_pc' = "remove" /\ h_ext' = 0
          ELSE IF h_ext < Len(possible_extensions)
          THEN h_ext' = h_ext + 1 /\ UNCHANGED <<h_key, h_pc>>
          ELSE h_key' = <<>> /\ h_pc' = "emit" /\ h_ext' = 0
    /\ UNCHANGED <<t_registry, t_jobs, t_windows, t_slots, t_dialogs, m_pc, m_call, m_key,
                   m_it, t_exc, h_job, cvars, wvars, avars, rvars, vvars>>

\* result-handler thread: the exception of a worker that raised arrives and
\* _on_task_failed tests the key, line 95
h_failed(j) ==
    /\ h_pc = "idle"
    /\ t_jobs[j].st = "running"
    /\ t_jobs' = [t_jobs EXCEPT ![j].st = "failing"]
    /\ h_job' = j
    /\ IF t_jobs[j].music_path \in t_registry
       THEN h_key' = t_jobs[j].music_path /\ h_pc' = "remove"
       ELSE h_key' = <<>> /\ h_pc' = "emit"
    /\ UNCHANGED <<t_registry, t_windows, t_slots, t_dialogs, m_pc, m_call, m_key, m_it,
                   t_exc, h_ext, cvars, wvars, avars, rvars, vvars>>

\* result-handler thread, line 79 or line 96: self.active_tasks.remove(...)
h_remove ==
    /\ h_pc = "remove"
    /\ t_registry' = t_registry \ {h_key}
    /\ h_pc' = "emit"
    /\ UNCHANGED <<t_jobs, t_windows, t_slots, t_dialogs, m_pc, m_call, m_key, m_it, t_exc,
                   h_job, h_ext, h_key, cvars, wvars, avars, rvars, vvars>>

\* the slot calls one emission of a terminal signal queues: one for each
\* window created so far, from window i on
RECURSIVE slot_calls(_, _, _, _)
slot_calls(windows, i, sig, path) ==
    IF i > Len(windows) THEN <<>>
    ELSE <<[sig |-> sig, path |-> path, project |-> windows[i]]>>
             \o slot_calls(windows, i + 1, sig, path)

\* the windows whose slot is connected to a signal: every window made, but
\* for the one whose __init__ has not yet run the connect of that signal,
\* line 50 or 51
connected(sig) ==
    IF \/ m_pc \in {"connect_submitted", "connect_finished"}
       \/ m_pc = "connect_failed" /\ sig = "task_failed"
    THEN SubSeq(t_windows, 1, Len(t_windows) - 1)
    ELSE t_windows

\* result-handler thread, lines 80-86 or 98-100: the terminal signal, which
\* Qt queues for the slot of each window connected to it, in the main thread
h_emit ==
    /\ h_pc = "emit"
    /\ t_slots' = t_slots \o
                    (IF t_jobs[h_job].st = "handling"
                     THEN slot_calls(connected("task_finished"), 1, "task_finished",
                                     t_jobs[h_job].output_path)
                     ELSE slot_calls(connected("task_failed"), 1, "task_failed",
                                     t_jobs[h_job].music_path))
    /\ t_jobs' = [t_jobs EXCEPT ![h_job].st = "done"]
    /\ h_pc' = "idle"
    /\ h_job' = 0
    /\ h_key' = <<>>
    /\ UNCHANGED <<t_registry, t_windows, t_dialogs, m_pc, m_call, m_key, m_it, t_exc, h_ext,
                   cvars, wvars, avars, rvars, vvars>>

TNext ==
    \/ \E k \in UIKeys : m_check(k)
    \/ m_add
    \/ m_dispatch
    \/ m_slot
    \/ \E p \in Projects : m_open(p)
    \/ m_connect_submitted
    \/ m_connect_finished
    \/ m_connect_failed
    \/ m_iter
    \/ m_next
    \/ m_dismiss
    \/ \E j \in 1..Len(t_jobs) : h_completed(j)
    \/ h_scan
    \/ \E j \in 1..Len(t_jobs) : h_failed(j)
    \/ h_remove
    \/ h_emit

ThreadSpec == TInit /\ [][TNext]_vars

(***************************************************************************)
(* One project window (specification ViewSpec): VideoMakerWindow of        *)
(* ui_components.py, its task queue and the slots the coordinator's        *)
(* signals are connected to.  The music folder holds a project whose name  *)
(* begins with the name of another one; every file has a name of its own,  *)
(* so an item of the queue names one key.                                  *)
(***************************************************************************)
\* number of slot calls queued to the window and not yet run
MaxQueued == 2

\* the project folders of the music folder (MainWindow.load_projects)
ViewProjects == {<<"P">>, <<"P", "Q">>, <<"Q">>}

\* os.listdir(project_music_path) of each of them
view_listdir(project) ==
    IF project = <<"P">> THEN { <<"a">> \o mid, <<"d">> \o mp3 }
    ELSE IF project = <<"P", "Q">> THEN { <<"b">> \o mid }
    ELSE { <<"c">> \o mid }

\* the keys the windows of these projects submit
ViewKeys ==
    UNION { { on_music_selected(p, f) : f \in music_files(view_listdir(p), {}) } :
            p \in ViewProjects }

\* the text of a queue item, lines 62 and 81
item_text(task_path) == <<"⏳", " ">> \o basename(task_path)

\* the project test of _on_task_submitted, _on_task_failed and
\* refresh_task_queue, lines 61, 72 and 80, for each project and key
in_music == [project \in ViewProjects, k \in ViewKeys |->
                belongs_to(project_music_path(project), k)]

\* the project test of _on_task_finished, line 66, for each project and the
\* output path of each key
in_movie == [project \in ViewProjects, k \in ViewKeys |->
                belongs_to(project_movie_path(project), derived_output_path(k))]

\* the output paths of the keys
view_output == [k \in ViewKeys |-> derived_output_path(k)]

\* the key of an output path
view_key(output_path) == CHOOSE k \in ViewKeys : view_output[k] = output_path

\* iter(self.export_manager.active_tasks), line 79
view_iter == [size |-> Cardinality(v_registry), left |-> v_registry]

\* a window of some project is open while no task is active
VInit ==
    /\ CInit
    /\ WIdle
    /\ AIdle
    /\ RIdle
    /\ TIdle
    /\ v_project \in ViewProjects
    /\ v_registry = {}
    /\ v_queue = <<>>
    /\ v_slots = <<>>
    /\ v_dialogs = 0
    /\ v_event = NoEvent
    /\ v_reacted = FALSE
    /\ v_shown = TRUE
    /\ v_h = NoEvent
    /\ v_pc = "idle"
    /\ v_call = "none"
    /\ v_it = NoIterator
    /\ v_exc = "None"

\* start_export in some window while no message box blocks the windows:
\* submit_task(music_path) is accepted and emits task_submitted in the main
\* thread, so the slot _on_task_submitted runs at once, lines 57-62
v_submitted(music_path) ==
    /\ v_pc = "idle"
    /\ v_dialogs = 0
    /\ music_path \notin v_registry
    /\ v_registry' = v_registry \cup {music_path}
    /\ v_event' = task_submitted(music_path)
    /\ v_reacted' = in_music[v_project, music_path]
    /\ v_queue' = IF in_music[v_project, music_path]
                  THEN Append(v_queue, item_text(music_path))
                  ELSE v_queue
    /\ UNCHANGED <<v_project, v_slots, v_dialogs, v_shown, v_h, v_pc, v_call, v_it, v_exc,
                   cvars, wvars, avars, rvars, tvars>>

\* the task of a key ends well: the pool's thread runs _on_task_completed
\* up to line 79. The files of one project have different base names here,
\* so the only candidate key in the registry at any turn of the scan is the
\* task's own: the scan and the removal are taken in one step
v_completed(music_path) ==
    /\ v_h = NoEvent
    /\ music_path \in v_registry
    /\ Len(v_slots) < MaxQueued
    /\ v_registry' = _on_task_completed(view_output[music_path], v_registry).active
    /\ v_h' = task_finished(view_output[music_path])
    /\ UNCHANGED <<v_project, v_queue, v_slots, v_dialogs, v_event, v_reacted, v_shown,
                   v_pc, v_call, v_it, v_exc, cvars, wvars, avars, rvars, tvars>>

\* the task of a key fails: the pool's thread runs _on_task_failed up to
\* line 96
v_failed(music_path) ==
    /\ v_h = NoEvent
    /\ music_path \in v_registry
    /\ Len(v_slots) < MaxQueued
    /\ v_registry' = _on_task_failed(music_path, "FFmpeg", v_registry).active
    /\ v_h' = task_failed(music_path, "FFmpeg")
    /\ UNCHANGED <<v_project, v_queue, v_slots, v_dialogs, v_event, v_reacted, v_shown,
                   v_pc, v_call, v_it, v_exc, cvars, wvars, avars, rvars, tvars>>

\* whether the window's slot is connected to a signal of the pool's thread:
\* not while its __init__ has not yet run the connect of that signal, line
\* 50 or 51
v_connected(sig) ==
    ~ \/ v_pc \in {"connect_submitted", "connect_finished"}
      \/ v_pc = "connect_failed" /\ sig = "task_failed"

\* the pool's thread emits task_finished, main.py line 81, or task_failed,
\* line 100, which queues a call of the window's slot to the main thread
\* when the slot is connected to the signal
v_emit ==
    /\ v_h # NoEvent
    /\ v_slots' = IF v_connected(v_h.sig) THEN Append(v_slots, v_h) ELSE v_slots
    /\ v_h' = NoEvent
    /\ UNCHANGED <<v_project, v_registry, v_queue, v_dialogs, v_event, v_reacted, v_shown,
                   v_pc, v_call, v_it, v_exc, cvars, wvars, avars, rvars, tvars>>

\* the event loop (that of the application or of an open message box) runs
\* the oldest queued call of the slot _on_task_finished, lines 64-68; for a
\* video of the window's project refresh_task_queue clears the queue, line
\* 78, and makes the iterator of its loop, line 79
v_on_task_finished ==
    /\ v_pc = "idle"
    /\ v_slots # <<>>
    /\ Head(v_slots).sig = "task_finished"
    /\ v_slots' = Tail(v_slots)
    /\ v_event' = Head(v_slots)
    /\ v_reacted' = in_movie[v_project, view_key(Head(v_slots).path)]
    /\ IF in_movie[v_project, view_key(Head(v_slots).path)]
       THEN /\ v_queue' = <<>>
            /\ v_it' = view_iter
            /\ v_pc' = "iterate"
            /\ v_call' = "_on_task_finished"
            /\ v_exc' = "None"
       ELSE UNCHANGED <<v_queue, v_it, v_pc, v_call, v_exc>>
    /\ UNCHANGED <<v_project, v_registry, v_dialogs, v_shown, v_h,
                   cvars, wvars, avars, rvars, tvars>>

\* the event loop runs the oldest queued call of the slot _on_task_failed,
\* lines 70-73
v_on_task_failed ==
    /\ v_pc = "idle"
    /\ v_slots # <<>>
    /\ Head(v_slots).sig = "task_failed"
    /\ v_slots' = Tail(v_slots)
    /\ v_event' = Head(v_slots)
    /\ v_reacted' = in_music[v_project, Head(v_slots).path]
    /\ IF in_music[v_project, Head(v_slots).path]
       THEN /\ v_queue' = <<>>
            /\ v_it' = view_iter
            /\ v_pc' = "iterate"
            /\ v_call' = "_on_task_failed"
            /\ v_exc' = "None"
       ELSE UNCHANGED <<v_queue, v_it, v_pc, v_call, v_exc>>
    /\ UNCHANGED <<v_project, v_registry, v_dialogs, v_shown, v_h,
                   cvars, wvars, avars, rvars, tvars>>

\* lines 79-81: one turn of the for loop of refresh_task_queue. The iterator
\* of a set raises RuntimeError when the set has changed size since iter(),
\* and the error leaves the slot or, through __init__, open_project, whose
\* window stays connected to the signals and is not shown. After the loop
\* _on_task_failed opens its message box, line 74, which waits in an event
\* loop of its own, and open_project shows the window it has made
v_next ==
    /\ v_pc = "iterate"
    /\ IF Cardinality(v_registry) # v_it.size
       THEN /\ v_exc' = "RuntimeError"
            /\ v_it' = NoIterator
            /\ v_pc' = "idle"
            /\ v_call' = "none"
            /\ UNCHANGED <<v_queue, v_dialogs, v_shown>>
       ELSE IF v_it.left = {}
       THEN /\ v_it' = NoIterator
            /\ v_pc' = "idle"
            /\ v_call' = "none"
            /\ v_dialogs' = IF v_call = "_on_task_failed" THEN v_dialogs + 1 ELSE v_dialogs
            /\ v_shown' = IF v_call = "__init__" THEN TRUE ELSE v_shown
            /\ UNCHANGED <<v_queue, v_exc>>
       ELSE /\ \E task_path \in v_it.left :
                  /\ v_it' = [v_it EXCEPT !.left = @ \ {task_path}]
                  /\ v_queue' = IF in_music[v_project, task_path]
                                THEN Append(v_queue, item_text(task_path))
                                ELSE v_queue
            /\ UNCHANGED <<v_pc, v_call, v_dialogs, v_shown, v_exc>>
    /\ UNCHANGED <<v_project, v_registry, v_slots, v_event, v_reacted, v_h,
                   cvars, wvars, avars, rvars, tvars>>

\* the user closes the message box opened last, line 74 returns
v_dismiss ==
    /\ v_pc = "idle"
    /\ v_dialogs > 0
    /\ v_dialogs' = v_dialogs - 1
    /\ UNCHANGED <<v_project, v_registry, v_queue, v_slots, v_event, v_reacted, v_shown,
                   v_h, v_pc, v_call, v_it, v_exc, cvars, wvars, avars, rvars, tvars>>

\* the window is closed and the window of some project is opened anew, by
\* MainWindow.open_project: VideoMakerWindow.__init__ runs up to its first
\* connect, lines 31-47; no call is queued to the new window
v_open(project) ==
    /\ v_pc = "idle"
    /\ v_dialogs = 0
    /\ v_project' = project
    /\ v_queue' = <<>>
    /\ v_slots' = <<>>
    /\ v_event' = NoEvent
    /\ v_reacted' = FALSE
    /\ v_shown' = FALSE
    /\ v_pc' = "connect_submitted"
    /\ v_call' = "__init__"
    /\ v_exc' = "None"
    /\ UNCHANGED <<v_registry, v_dialogs, v_h, v_it, cvars, wvars, avars, rvars, tvars>>

\* __init__ line 49, task_submitted.connect
v_connect_submitted ==
    /\ v_pc = "connect_submitted"
    /\ v_pc' = "connect_finished"
    /\ UNCHANGED <<v_project, v_registry, v_queue, v_slots, v_dialogs, v_event, v_reacted,
                   v_shown, v_h, v_call, v_it, v_exc, cvars, wvars, avars, rvars, tvars>>

\* __init__ line 50, task_finished.connect
v_connect_finished ==
    /\ v_pc = "connect_finished"
    /\ v_pc' = "connect_failed"
    /\ UNCHANGED <<v_project, v_registry, v_queue, v_slots, v_dialogs, v_event, v_reacted,
                   v_shown, v_h, v_call, v_it, v_exc, cvars, wvars, avars, rvars, tvars>>

\* __init__ line 51, task_failed.connect
v_connect_failed ==
    /\ v_pc = "connect_failed"
    /\ v_pc' = "refresh"
    /\ UNCHANGED <<v_project, v_registry, v_queue, v_slots, v_dialogs, v_event, v_reacted,
                   v_shown, v_h, v_call, v_it, v_exc, cvars, wvars, avars, rvars, tvars>>

\* __init__ has run refresh_music_list, line 54, and calls
\* refresh_task_queue, line 55, which makes the iterator of its loop
v_iter ==
    /\ v_pc = "refresh"
    /\ v_it' = view_iter
    /\ v_pc' = "iterate"
    /\ UNCHANGED <<v_project, v_registry, v_queue, v_slots, v_dialogs, v_event, v_reacted,
                   v_shown, v_h, v_call, v_exc, cvars, wvars, avars, rvars, tvars>>

VNext ==
    \/ \E k \in ViewKeys : v_submitted(k)
    \/ \E k \in ViewKeys : v_completed(k)
    \/ \E k \in ViewKeys : v_failed(k)
    \/ v_emit
    \/ v_on_task_finished
    \/ v_on_task_failed
    \/ v_next
    \/ v_dismiss
    \/ \E p \in ViewProjects : v_open(p)
    \/ v_connect_submitted
    \/ v_connect_finished
    \/ v_connect_failed
    \/ v_iter

ViewSpec == VInit /\ [][VNext]_vars

(***************************************************************************)
(* Properties of the coordinator (specification Spec)                      *)
(***************************************************************************)
TaskIds == 1..Len(tasks)

\* the lifecycle signals of a sequence of emissions (status_update left out)
Lifecycle(emissions) == SelectSeq(emissions, LAMBDA e : e.sig # "status_update")

\* what the step emitted for task t
Emitted(t) == SubSeq(tasks'[t].emitted, Len(tasks[t].emitted) + 1, Len(tasks'[t].emitted))

\* the step is the last one of the callback or error callback of task t:
\* its emissions
Delivers(t, st) == tasks[t].st = st /\ tasks'[t].st = "done"

\* the step is the one after which the callback or error callback of task t
\* stands before its emissions: the last test of the registry, with the
\* remove if there is one
Resolves(t, st) == tasks[t].st = st /\ scan.pc # "emit" /\ scan'.pc = "emit" /\ scan'.t = t

\* the registry when the callback that is running, or starting, was called
RegistryAtCall == IF scan = NoScan THEN active_tasks ELSE scan.at_call

\* paths written out from their parts, without os.path
Bases == {<<"a">>}
MusicFile(project, base, ext) ==
    <<"/", "w", "/", "M", "u", "s", "i", "c", "/">> \o project \o <<"/">> \o base \o ext
MovieFile(project, base) ==
    <<"/", "w", "/", "M", "o", "v", "i", "e", "/">> \o project \o <<"/">> \o base \o mp4
Candidates(project, base) == {MusicFile(project, base, e) : e \in {mid, mp3, wav}}

\* C1: of the submits of one key made before its terminal event exactly one
\* is accepted: a submit_task call is never accepted (returning True and
\* dispatching) while an earlier accepted submission of the same key has not
\* had its terminal event.
C1_OneAcceptedBeforeTerminal ==
    [][ret' = "True" =>
          ~\E t \in TaskIds :
               /\ tasks[t].music_path = tasks'[Len(tasks')].music_path
               /\ tasks[t].st # "done"]_vars

\* C2: every accepted submission has emitted exactly task_submitted(key)
\* while its result is not handled, and exactly task_submitted(key) followed
\* by one terminal signal once it is: task_finished(output path) when the
\* worker returned, task_failed(key, message) when it raised. A result of an
\* ended worker is always in the result queue, once, so its terminal signal
\* is still to come.
C2_Lifecycle ==
    \A t \in TaskIds :
        LET T == tasks[t]
            ev == Lifecycle(T.emitted)
        IN /\ Len(ev) >= 1
           /\ ev[1] = task_submitted(T.music_path)
           /\ T.st # "done" => Len(ev) = 1
           /\ T.st = "done" =>
                 /\ Len(ev) = 2
                 /\ ev[2] = IF T.error = ""
                            THEN task_finished(T.output_path)
                            ELSE task_failed(T.music_path, T.error)
           /\ T.st \in {"returned", "raised"} <=>
                 Cardinality({i \in 1..Len(outqueue) : outqueue[i] = t}) = 1
           /\ T.st \in {"running", "done"} =>
                 ~\E i \in 1..Len(outqueue) : outqueue[i] = t

C2_Witness ==
    \E t1, t2 \in TaskIds :
        /\ tasks[t1].st = "done" /\ tasks[t1].error = ""
        /\ tasks[t2].st = "done" /\ tasks[t2].error # ""

\* C3: no key has two in-flight tasks (dispatched, worker not yet ended).
C3_OneInFlightPerKey ==
    \A t1, t2 \in TaskIds :
        (t1 # t2 /\ tasks[t1].music_path = tasks[t2].music_path)
            => ~(tasks[t1].st = "running" /\ tasks[t2].st = "running")

\* C4: once the terminal signal of the latest accepted submission of a key
\* has fired, the key is not in the registry (so a new submit is accepted).
C4_FreeAfterTerminal ==
    \A t \in TaskIds :
        (/\ tasks[t].st = "done"
         /\ \A u \in TaskIds : tasks[u].music_path = tasks[t].music_path => u <= t)
            => tasks[t].music_path \notin active_tasks

\* C5: when the callback runs for result path <movie>/<project>/<base>.mp4 and
\* exactly one of <music>/<project>/<base>.mid, .mp3, .wav is in the registry,
\* from the call to its last test, it resolves to that key and removes
\* exactly that key, and a callback that has resolved a key emits
\* task_finished(result path) once and changes the registry no more.
C5_ReconciliationInversion ==
    [][\A t \in TaskIds, p \in Projects, b \in Bases :
          LET present == Candidates(p, b) \cap active_tasks
          IN tasks[t].output_path = MovieFile(p, b)
               => /\ (/\ Resolves(t, "returned")
                      /\ Candidates(p, b) \cap RegistryAtCall = present
                      /\ Cardinality(present) = 1)
                        => /\ active_tasks' = active_tasks \ present
                           /\ scan'.original \in present
                  /\ (Delivers(t, "returned") /\ scan.original # <<>>)
                        => /\ active_tasks' = active_tasks
                           /\ Lifecycle(Emitted(t)) = <<task_finished(MovieFile(p, b))>>
                           /\ raised' = "None"]_vars

\* each of P/a.mid, P/a.mp3 and P/a.wav was submitted and has been handled,
\* the last one as the only key of the registry: the callback of P/a.wav has
\* resolved to that key, removed it and stands before its emissions
C5_Witness ==
    /\ Len(tasks) = 3
    /\ \A e \in {mid, mp3, wav} :
          \E t \in 1..3 : /\ tasks[t].music_path = MusicFile(<<"P">>, <<"a">>, e)
                          /\ tasks[t].error = ""
    /\ \E t \in 1..3 :
          /\ tasks[t].music_path = MusicFile(<<"P">>, <<"a">>, wav)
          /\ tasks[t].st = "returned"
          /\ scan.pc = "emit" /\ scan.t = t
          /\ scan.original = MusicFile(<<"P">>, <<"a">>, wav)
          /\ \A u \in 1..3 : u # t => tasks[u].st = "done"
    /\ active_tasks = {}

\* C6: when the callback runs for a result path none of whose three candidate
\* keys is in the registry, from the call to its last test, it resolves no
\* key and leaves the registry unchanged, and a callback that has resolved
\* no key raises nothing, emits task_finished(result path) once and leaves
\* the registry unchanged.
C6_AnomalyTolerance ==
    [][\A t \in TaskIds, p \in Projects, b \in Bases :
          tasks[t].output_path = MovieFile(p, b)
            => /\ (/\ Resolves(t, "returned")
                   /\ Candidates(p, b) \cap (RegistryAtCall \cup active_tasks) = {})
                     => /\ active_tasks' = active_tasks
                        /\ scan'.original = <<>>
               /\ (Delivers(t, "returned") /\ scan.original = <<>>)
                     => /\ active_tasks' = active_tasks
                        /\ Lifecycle(Emitted(t)) = <<task_finished(MovieFile(p, b))>>
                        /\ raised' = "None"]_vars

\* the only submission, of P/a.MID, has had its result handled: no candidate
\* key was in the registry
C6_Witness ==
    /\ Len(tasks) = 1
    /\ tasks[1].music_path = <<"/", "w", "/", "M", "u", "s", "i", "c", "/", "P", "/",
                                "a", ".", "M", "I", "D">>
    /\ tasks[1].st = "done"
    /\ tasks[1].error = ""

\* C7: when the error callback runs for a key, the registry loses that key
\* and nothing else, whether or not it held the key; task_failed(key, message)
\* is emitted once and nothing is raised; and when task_failed has been
\* emitted the registry does not contain the key.
C7_FailureReconciliation ==
    [][\A t \in TaskIds :
          /\ Resolves(t, "raised")
                => active_tasks' = active_tasks \ {tasks[t].music_path}
          /\ Delivers(t, "raised")
                => /\ Lifecycle(Emitted(t)) =
                          <<task_failed(tasks[t].music_path, tasks[t].error)>>
                   /\ raised' = "None"
                   /\ tasks[t].music_path \notin active_tasks']_vars

(***************************************************************************)
(* Properties of the worker function (specification WorkerSpec)            *)
(***************************************************************************)
\* C8: a concurrent reader of output_path sees no file or a complete file,
\* never an empty or partly written one.
C8_AtomicOutput == seen \in {"nothing", "absent", "complete", "old"}

\* C9: when run_export_process has returned or raised, none of the temporary
\* files it created exists.
C9_ScopedCleanup ==
    wpc = "done" => \A f \in TempFiles : fs[f] = "absent"

\* the call rendered a MIDI source and then failed in muxing
C9_Witness ==
    /\ wpc = "done"
    /\ result = "FFmpeg"
    /\ loc.temp_wav_path /\ loc.render_out

\* C10: run_export_process does not return output_path when no file is at
\* output_path.
C10_NoReturnWithoutOutput ==
    result = "returned" => fs["output"] # "absent"

(***************************************************************************)
(* Properties of the life of the program (specification AppSpec)           *)
(***************************************************************************)
\* C11: never more than MAX_CONCURRENT_EXPORTS (8) worker functions execute
\* at the same time, and while 8 execute no waiting task is started.
C11_BoundedPool ==
    /\ executing <= 8
    /\ executing = 8 => ~ENABLED a_start

\* eight tasks execute and further accepted tasks wait
C11_Witness == executing = 8 /\ taskqueue >= 2

\* C12: submit_task of a key that is not in the registry can always be made
\* while the pool runs, whatever the workers are doing, and it returns True
\* in a step in which no worker starts or ends and no callback runs.
C12_NonBlockingSubmit ==
    [][/\ (pool_state = "RUN" /\ sig_submitted < MaxJobs) => ENABLED a_submit
       /\ a_ret' = "True" => /\ executing' = executing
                             /\ results' = results
                             /\ handled' = handled
                             /\ taskqueue' = taskqueue + 1]_vars

\* a submission was accepted with all eight slots busy and a task waiting
C12_Witness == a_ret = "True" /\ executing = 8 /\ taskqueue >= 2

\* C13: when shutdown() has returned, no task waits, no worker function is
\* executing, every result has been handled, and as many terminal events
\* have been emitted as tasks were unfinished at the call.
C13_ShutdownDrains ==
    a_pc = "shut" => /\ taskqueue = 0
                     /\ executing = 0
                     /\ results = 0
                     /\ sig_terminal >= at_close

\* shutdown() was called with eight tasks executing and more waiting, and
\* has returned
C13_Witness == a_pc = "shut" /\ at_close > 8

\* C14: once shutdown() has been called, no step reserves a key, emits
\* task_submitted or dispatches a task.
C14_NoSubmitAfterShutdown ==
    [][pool_state = "CLOSE" => /\ registry' <= registry
                               /\ sig_submitted' = sig_submitted
                               /\ taskqueue' <= taskqueue]_vars

\* C20: when ffmpeg, fluidsynth or the soundfont is missing at startup, the
\* pool is never created, no task is ever submitted or dispatched and no
\* terminal event is ever emitted.
C20_StartupCheck ==
    (~env.ffmpeg \/ ~env.fluidsynth \/ ~env.soundfont)
        => /\ pool_state = "none"
           /\ a_pc \in {"start", "checked", "exited"}
           /\ sig_submitted = 0
           /\ taskqueue = 0 /\ executing = 0
           /\ sig_terminal = 0

\* only fluidsynth was missing, and the program has exited
C20_Witness ==
    /\ a_pc = "exited"
    /\ ~env.fluidsynth /\ env.ffmpeg /\ env.soundfont
    /\ dep_errors = {"fluidsynth"}

(***************************************************************************)
(* Further properties of the coordinator (specification Spec)              *)
(***************************************************************************)
KeyExts == {mid, mp3, wav, <<".", "M", "I", "D">>}

\* C16: the task of an accepted key <music root>/<project>/<base><ext> is
\* dispatched with the output path <movie root>/<project>/<base>.mp4, and
\* when its worker has returned and the callback has run, the task_finished
\* it emitted carries exactly that path.
C16_DerivedOutputPath ==
    \A t \in TaskIds : \A p \in Projects, b \in Bases, e \in KeyExts :
        tasks[t].music_path = MusicFile(p, b, e)
            => /\ tasks[t].output_path = MovieFile(p, b)
               /\ (tasks[t].st = "done" /\ tasks[t].error = "")
                    => Lifecycle(tasks[t].emitted)
                           = <<task_submitted(MusicFile(p, b, e)),
                               task_finished(MovieFile(p, b))>>

\* the exports of P/a.MID and of Q/a.mid have both succeeded
C16_Witness ==
    \E t1, t2 \in TaskIds :
        /\ tasks[t1].music_path = MusicFile(<<"P">>, <<"a">>, <<".", "M", "I", "D">>)
        /\ tasks[t1].st = "done" /\ tasks[t1].error = ""
        /\ tasks[t2].music_path = MusicFile(<<"Q">>, <<"a">>, mid)
        /\ tasks[t2].st = "done" /\ tasks[t2].error = ""

(***************************************************************************)
(* Properties of one callback (specification ReconcileSpec)                *)
(***************************************************************************)
\* the candidate key the callback must take: the first one in the registry
\* in the order .mid, .mp3, .wav
FirstPresent(project, base) ==
    IF MusicFile(project, base, mid) \in r_registry THEN MusicFile(project, base, mid)
    ELSE IF MusicFile(project, base, mp3) \in r_registry THEN MusicFile(project, base, mp3)
    ELSE MusicFile(project, base, wav)

\* C17: when two or three of the candidate keys <base>.mid, <base>.mp3,
\* <base>.wav of the result's project are in the registry, _on_task_completed
\* removes exactly one key, the first present in that order, and every other
\* key stays.
C17_ExtensionPriority ==
    \A p \in Projects, b \in Bases :
        (/\ r_outcome # NoOutcome
         /\ r_result_path = MovieFile(p, b)
         /\ Cardinality(Candidates(p, b) \cap r_registry) >= 2)
            => r_outcome.active = r_registry \ {FirstPresent(p, b)}

\* a.mp3 and a.wav of project P were in the registry, a.mid was not, and the
\* callback has taken a.mp3
C17_Witness ==
    /\ r_result_path = MovieFile(<<"P">>, <<"a">>)
    /\ MusicFile(<<"P">>, <<"a">>, mid) \notin r_registry
    /\ MusicFile(<<"P">>, <<"a">>, mp3) \in r_registry
    /\ MusicFile(<<"P">>, <<"a">>, wav) \in r_registry
    /\ r_outcome # NoOutcome
    /\ MusicFile(<<"P">>, <<"a">>, mp3) \notin r_outcome.active
    /\ MusicFile(<<"P">>, <<"a">>, wav) \in r_outcome.active

(***************************************************************************)
(* Properties of the threads (specification ThreadSpec)                    *)
(***************************************************************************)
\* C15: in no state is a callback at its removal from the registry while
\* submit_task is between its membership test and its insert, or while
\* refresh_task_queue is iterating the registry.
C15_SerializedRegistry ==
    h_pc = "remove" => m_pc \notin {"add", "iterate"}

(***************************************************************************)
(* Properties of the render (specification WorkerSpec)                     *)
(***************************************************************************)
\* C18: inside _render_midi_to_wav_internal the file at output_wav_path is
\* changed by no step but the placing one, which is reached only when
\* fluidsynth has exited with 0 and left its temporary output, and which
\* puts that temporary file there (or leaves nothing when the rename
\* fails); a synthesis that fails is never followed by the placing step and
\* leaves a file that was at output_wav_path as it was.
C18_RenderThenPlace ==
    [][/\ wpc \in {"render_copy", "synth", "render_finally"}
            => fs'[OutputWav] = fs[OutputWav]
       /\ wpc = "place"
            => /\ rc = 0
               /\ fs["render_out"] # "absent"
               /\ fs'[OutputWav] \in {fs[OutputWav], fs["render_out"], "absent"}
       /\ (wpc = "synth" /\ exc' = "FluidSynth")
            => wpc' # "place" /\ fs'[OutputWav] = fs[OutputWav]]_vars

\* a preview whose synthesis failed has ended, and the waveform rendered
\* earlier is still in its place
C18_Witness ==
    /\ wargs.call = "preview"
    /\ wpc = "done"
    /\ exc = "FluidSynth"
    /\ result = "error"
    /\ fs["cache"] = "old"

\* C19: while the waveform rendered earlier from the source of the call is
\* in the cache, the synthesis tool has produced no output in this call, and
\* different MIDI sources have different cache entries.
C19_RenderCache ==
    /\ fs["cache"] = "old" => fs["render_out"] = "absent"
    /\ \A k1, k2 \in {k \in UIKeys : is_midi(k)} :
           k1 # k2 => final_cached_wav_path(k1) # final_cached_wav_path(k2)

(***************************************************************************)
(* Properties of the registry (specification Spec)                         *)
(***************************************************************************)
\* C22: every key in the registry is the key of a dispatched task whose
\* callback or error callback has not run yet; so when the callbacks of all
\* dispatched tasks have run, the registry is empty.
C22_NoLeakedReservation ==
    \A k \in active_tasks :
        \E t \in TaskIds : tasks[t].music_path = k /\ tasks[t].st # "done"

\* C23: no two in-flight tasks (dispatched, worker not yet ended) have the
\* same output path.
C23_NoSharedOutputFile ==
    \A t1, t2 \in TaskIds :
        (t1 # t2 /\ tasks[t1].st = "running" /\ tasks[t2].st = "running")
            => tasks[t1].output_path # tasks[t2].output_path

(***************************************************************************)
(* Properties of the teardown (specification AppSpec)                      *)
(***************************************************************************)
\* C24: shutdown() is never called twice; when TEMP_DIR has been removed,
\* shutdown() has been called once and has returned and no task waits,
\* executes or has a result outstanding; and when the hooks of a program
\* that had created its pool have all run, shutdown() has been called once.
C24_TeardownOrder ==
    /\ shutdown_calls <= 1
    /\ ~temp_dir => /\ shutdown_calls = 1
                    /\ a_pc = "shut"
                    /\ taskqueue = 0 /\ executing = 0 /\ results = 0
    /\ (a_pc \in {"exiting", "shut"} /\ hooks = <<>>) => shutdown_calls = 1

\* the program was quit with eight tasks executing and more waiting, and
\* TEMP_DIR has been removed
C24_Witness == ~temp_dir /\ at_close > 8 /\ hooks = <<>>

(***************************************************************************)
(* Properties of the project window (specification ViewSpec)               *)
(***************************************************************************)
\* the files of the window's own project folder
OwnMusic == { <<"/", "w", "/", "M", "u", "s", "i", "c", "/">> \o v_project \o <<"/">> \o f :
                f \in view_listdir(v_project) }

\* the videos of the window's own project folder
OwnMovies == { <<"/", "w", "/", "M", "o", "v", "i", "e", "/">> \o v_project \o <<"/">>
                  \o SubSeq(f, 1, Len(f) - 4) \o mp4 : f \in view_listdir(v_project) }

\* C21: every item of the window's queue is a task of a file in the
\* window's own project folder, and a slot passes its project test only for
\* a signal whose key or output path lies in that folder.
C21_PerProjectView ==
    /\ \A i \in 1..Len(v_queue) :
          \E f \in view_listdir(v_project) : v_queue[i] = <<"⏳", " ">> \o f
    /\ v_reacted => v_event.path \in OwnMusic \cup OwnMovies

====
